---- MODULE Spec2Model ----
(***************************************************************************)
(* The bulk group-membership removal workflow of the WhatsApp admin        *)
(* scripts: batch_remove_duplicates.py (BatchGroupManager, batches with an *)
(* approval prompt each) and group_management.py (GroupManager, two groups *)
(* without batches).  The bridge, the operator and the clock are the       *)
(* environment; `log` is the record a test double of them would keep.      *)
(***************************************************************************)
EXTENDS Integers, Sequences, FiniteSets, TLC

(* ---- bounds of the model ---------------------------------------------- *)
NumJids == 3
MaxContacts == 3
MaxBatchSize == 2
MaxInvalid == 1
MaxFaults == 1
MaxLines == 2
MaxRows == 2

(* ---- program constants ------------------------------------------------ *)
DelaySeconds == 2
RequestTimeout == 15
GroupSleepFactor == 2

JIDS == 1 .. NumJids
GROUP1 == "120363315467665376@g.us"
GROUP2 == "120363385526179109@g.us"

VARIABLES
    script,                \* which script runs: "batch" or "gm"
    csv_file,              \* the input contact CSV on disk
    whitelist_file,        \* the whitelist file on disk
    dry_run,               \* group_management: args.dry_run
    contacts,              \* the loaded contact list
    whitelist,             \* self.whitelist
    batch_size,            \* self.batch_size
    pc,                    \* position of the single thread of control
    gi,                    \* index of the group being processed
    removable_contacts,    \* planning: contacts not in the whitelist
    whitelisted_contacts,  \* planning: contacts in the whitelist
    batches,               \* planning: the batches
    batch_num,             \* number of the batch at the prompt / in execution
    i,                     \* 1-based position inside the running loop
    batch_results,         \* `results` of the running remove_batch / bulk_remove_participants
    all_results,           \* process_group_in_batches: all_results
    results,               \* per-group results of the run (group_jid -> list)
    summary,               \* the final totals printed by the run
    saved,                 \* group_management: the results file written
    exit_code,             \* exit status of the process, "running" until it ends
    log                    \* history: prompts answered, bridge calls, sleeps, errors

\* what a run never writes after construction
inputs == << script, csv_file, whitelist_file, dry_run, whitelist, batch_size >>

vars == << inputs, contacts, pc, gi, removable_contacts,
           whitelisted_contacts, batches, batch_num, i, batch_results,
           all_results, results, summary, saved, exit_code, log >>

(* ---- helpers ---------------------------------------------------------- *)
Min(a, b) == IF a < b THEN a ELSE b

\* Python slice s[a:b] for 0 <= a
Slice(s, a, b) == SubSeq(s, a + 1, Min(b, Len(s)))

Count(s, P(_)) == Len(SelectSeq(s, P))

Range(f) == { f[x] : x \in DOMAIN f }

RECURSIVE Flatten(_)
Flatten(ss) == IF ss = << >> THEN << >> ELSE Head(ss) \o Flatten(Tail(ss))

\* all sequences over S of length at most n
SeqsUpTo(S, n) == UNION { [1 .. m -> S] : m \in 0 .. n }

Max(S) == CHOOSE x \in S : \A y \in S : y <= x

\* Identifiers are opaque: the scripts only compare them and look them up in the
\* whitelist, so contact lists are taken up to renaming, the first new
\* identifier of a list being 1, the next 2, ...
FirstOccurrenceOrder(cs) ==
    \A n \in 1 .. Len(cs) : cs[n].jid <= 1 + Max({0} \cup { cs[m].jid : m \in 1 .. n - 1 })

\* the batch script given both groups, as its final warning announces
groups_both == << GROUP1, GROUP2 >>

groups == IF script = "batch" THEN << GROUP2 >> ELSE << GROUP1, GROUP2 >>

(* ---- the environment -------------------------------------------------- *)
\* what the bridge does with one remove request
BridgeBehaviours ==
    { [kind |-> "response", status |-> 200, success |-> TRUE,  text |-> "removed"],
      [kind |-> "response", status |-> 200, success |-> FALSE, text |-> "not an admin"],
      [kind |-> "response", status |-> 403, success |-> FALSE, text |-> "forbidden"],
      [kind |-> "refused",  status |-> 0,   success |-> FALSE, text |-> "connection refused"],
      [kind |-> "silent",   status |-> 0,   success |-> FALSE, text |-> "no answer"] }

Acknowledged(b) == b.kind = "response" /\ b.status = 200 /\ b.success

Responses == {"y", "n", "q", "x"}

\* one entry of the history: a confirmation ("confirm") or approval ("input")
\* prompt with the answer typed, a remove request received by the bridge
\* ("call", with the position of the contact in its loop), a time.sleep
\* between two removals ("sleep") or between two groups ("group_sleep")
Event(ev, g, b, n, total, j, t, s) ==
    [ev |-> ev, group_jid |-> g, batch_num |-> b, index |-> n, total |-> total,
     jid |-> j, text |-> t, seconds |-> s]

IsCall(e) == e.ev = "call"
IsInput(e) == e.ev = "input"
IsSleep(e) == e.ev = "sleep"
IsFault(e) == e.ev = "call" /\ e.text # "acknowledged"
IsInvalid(e) == e.ev = "input" /\ e.text \notin {"y", "n", "q"}

(* ---- the program ------------------------------------------------------ *)
RemovalResult(jid, group_jid, success, message, error_code, skipped, skip_reason) ==
    [jid |-> jid, group_jid |-> group_jid, success |-> success, message |-> message,
     error_code |-> error_code, skipped |-> skipped, skip_reason |-> skip_reason]

\* the whitelist check that protects nobody
is_whitelisted_never(jid) == FALSE

is_whitelisted(jid) == jid \in whitelist

\* session.post(..., timeout=15) in batch_remove_duplicates, no timeout in group_management
timeout == IF script = "batch" THEN RequestTimeout ELSE 0
has_timeout == timeout > 0

\* the request never returns: a silent bridge and no timeout
Hangs(participant_jid, b) ==
    ~is_whitelisted(participant_jid) /\ b.kind = "silent" /\ ~has_timeout

\* a request is sent to the bridge exactly when the whitelist check lets it through
SendsRequest(participant_jid) == ~is_whitelisted(participant_jid)

StatusText(n) == IF n = 200 THEN "200" ELSE IF n = 403 THEN "403" ELSE "0"

\* the four results remove_group_participant can return
WhitelistedResult(group_jid, participant_jid) ==
    RemovalResult(participant_jid, group_jid, FALSE,
                  << "Skipped - contact is whitelisted" >>, "None", TRUE, "whitelisted")

RemovedResult(group_jid, participant_jid) ==
    RemovalResult(participant_jid, group_jid, TRUE,
                  << "Successfully removed from group" >>, "None", FALSE, "None")

HttpErrorResult(group_jid, participant_jid, b) ==
    RemovalResult(participant_jid, group_jid, FALSE,
                  << "HTTP", StatusText(b.status), b.text >>,
                  IF script = "gm" THEN StatusText(b.status) ELSE "None", FALSE, "None")

\* the except branch that reports the contact as skipped
RequestFailedResult_skipped(group_jid, participant_jid, b) ==
    RemovalResult(participant_jid, group_jid, FALSE,
                  << "Request failed", IF b.kind = "silent" THEN "timed out" ELSE b.text >>,
                  "None", TRUE, "None")

RequestFailedResult(group_jid, participant_jid, b) ==
    RemovalResult(participant_jid, group_jid, FALSE,
                  << "Request failed", IF b.kind = "silent" THEN "timed out" ELSE b.text >>,
                  "None", FALSE, "None")

remove_group_participant(group_jid, participant_jid, b) ==
    IF is_whitelisted(participant_jid)
    THEN WhitelistedResult(group_jid, participant_jid)
    ELSE IF b.kind = "response"
    THEN IF b.status = 200
         THEN RemovedResult(group_jid, participant_jid)
         ELSE HttpErrorResult(group_jid, participant_jid, b)
    ELSE RequestFailedResult(group_jid, participant_jid, b)

\* the loop that stays on a contact whose removal failed
NextIndex_retry_failed(rs, n) ==
    IF rs # << >> /\ ~rs[Len(rs)].success /\ ~rs[Len(rs)].skipped THEN n ELSE n + 1

\* `for i, contact in enumerate(...)`: the loop goes on to the next contact,
\* whatever the results so far
NextIndex(rs, n) == n + 1

\* the delay taken only after a successful removal
NeedsDelay_on_success(result, n, total) == result.success /\ n < total

\* `if not result.skipped and i < len(contacts_batch)`: sleep before the next one
NeedsDelay(result, n, total) == ~result.skipped /\ n < total

\* what the bridge saw of the request, as the history keeps it
Outcome(b) == IF Acknowledged(b) THEN "acknowledged"
              ELSE IF b.kind = "response" THEN "rejected" ELSE b.kind

CallEvent(group_jid, bn, n, total, participant_jid, b) ==
    Event("call", group_jid, bn, n, total, participant_jid, Outcome(b), 0)

\* the planning that leaves out the contacts the run already has a result for
Removable_unprocessed(cs) ==
    SelectSeq(cs, LAMBDA c : /\ ~is_whitelisted(c.jid)
                             /\ \A n \in 1 .. Len(all_results) : all_results[n].jid # c.jid
                             /\ \A n \in 1 .. Len(batch_results) : batch_results[n].jid # c.jid)

\* the removable list taken without the filter
Removable_all(cs) == cs

\* planning of process_group_in_batches / main
Removable(cs) == SelectSeq(cs, LAMBDA c : ~is_whitelisted(c.jid))
\* the protected list taken without the filter
Whitelisted_unfiltered(cs) == cs

Whitelisted(cs) == SelectSeq(cs, LAMBDA c : is_whitelisted(c.jid))

RECURSIVE SplitFrom(_, _, _)
SplitFrom(cs, k, start) ==
    IF start >= Len(cs) THEN << >>
    ELSE << Slice(cs, start, start + k) >> \o SplitFrom(cs, k, start + k)

\* range(1, len, k): the slicing started one element late
SplitIntoBatches_from1(cs, k) == SplitFrom(cs, k, 1)

\* the batches of one contact each, whatever the batch size
SplitIntoBatches_singletons(cs, k) == SplitFrom(cs, 1, 0)

\* the batches cut from the list taken backwards
SplitIntoBatches_reversed(cs, k) ==
    SplitFrom([n \in 1 .. Len(cs) |-> cs[Len(cs) + 1 - n]], k, 0)

SplitIntoBatches(cs, k) == SplitFrom(cs, k, 0)

Successful(rs) == Count(rs, LAMBDA r : r.success)
\* the failure count that takes every result without success for a failure
Failed_not_success(rs) == Count(rs, LAMBDA r : ~r.success)

Failed(rs) == Count(rs, LAMBDA r : ~r.success /\ ~r.skipped)
Skipped(rs) == Count(rs, LAMBDA r : r.skipped)

(* ---- the files ---------------------------------------------------------- *)
\* a file that is there, one that is not (FileNotFoundError), one that cannot
\* be opened (any other exception of open)
CsvFiles ==
    { [status |-> "ok", rows |-> cs] :
        cs \in { cs \in SeqsUpTo({ [jid |-> j] : j \in JIDS }, MaxContacts) :
                   FirstOccurrenceOrder(cs) } }
    \cup { [status |-> st, rows |-> << >>] : st \in {"missing", "unreadable"} }

WhitelistFiles ==
    { [status |-> "ok", jids |-> w] : w \in SUBSET JIDS }
    \cup { [status |-> "missing", jids |-> {}] }

\* the whitelist that protects every contact when the file is missing
load_whitelist_fail_closed(f) == IF f.status = "ok" THEN f.jids ELSE JIDS

load_whitelist(f) == IF f.status = "ok" THEN f.jids ELSE {}

\* `if row.get('jid')`: 0 stands for a missing or empty jid field
load_common_contacts(f) ==
    IF f.status = "ok" THEN SelectSeq(f.rows, LAMBDA row : row.jid # 0) ELSE << >>

ErrorEvent(text) == Event("error", "", 0, 0, 0, 0, text, 0)

\* the loader that swallows its exceptions without a word
LoadErrors_silent(f) == << >>

\* logger.error of the two except branches of the contact loader
LoadErrors(f) == IF f.status = "missing" THEN << ErrorEvent("CSV file not found") >>
                 ELSE IF f.status = "unreadable" THEN << ErrorEvent("Error reading CSV file") >>
                 ELSE << >>

\* the exit status that reports a cancelled run as a failure
ExitStatus_cancel_fails(cancelled) == IF cancelled THEN "1" ELSE "0"

\* main returns normally on every path of a run that ends
ExitStatus(cancelled) == "0"

\* the flag never looked at
DryRun_ignored == FALSE

DryRun == dry_run

Init ==
    /\ script \in {"batch", "gm"}
    /\ csv_file \in CsvFiles
    /\ whitelist_file \in WhitelistFiles
    /\ dry_run \in (IF script = "gm" THEN BOOLEAN ELSE {FALSE})
    /\ contacts = << >>
    /\ whitelist = load_whitelist(whitelist_file)
    /\ batch_size \in (IF script = "batch" THEN 1 .. MaxBatchSize ELSE {1})
    /\ pc = "start"
    /\ gi = 1
    /\ removable_contacts = << >>
    /\ whitelisted_contacts = << >>
    /\ batches = << >>
    /\ batch_num = 0
    /\ i = 0
    /\ batch_results = << >>
    /\ all_results = << >>
    /\ results = [g \in {} |-> << >>]
    /\ summary = [successful |-> 0, failed |-> 0, skipped |-> 0, printed |-> FALSE]
    /\ saved = [written |-> FALSE, rows |-> << >>]
    /\ exit_code = "running"
    /\ log = << >>

(* ---- shared steps ------------------------------------------------------ *)
Invalids == Count(log, IsInvalid)
Faults == Count(log, IsFault)

\* the environment's choice is within the bounds of the model
BridgeMay(b) == Acknowledged(b) \/ Faults < MaxFaults

ConfirmWords == {"START", "REMOVE", "no"}

\* the word each script compares the answer of its first prompt with
ConfirmWord == IF script = "batch" THEN "START" ELSE "REMOVE"

\* the prompt that goes on unless the operator says no
IsConfirmed_unless_no(confirm) == confirm # "no"

\* `if confirm != 'START': return` / `if confirm != 'REMOVE': return`
IsConfirmed(confirm) == confirm = ConfirmWord

\* the prompt that takes every answer but n and q for a yes
Decision_default_yes(response) == IF response = "n" THEN "skip"
                                  ELSE IF response = "q" THEN "quit"
                                  ELSE "proceed"

\* the prompt that skips the batch on every answer but y and q
Decision_invalid_as_skip(response) == IF response = "y" THEN "proceed"
                                      ELSE IF response = "q" THEN "quit"
                                      ELSE "skip"

\* the prompt that handles q like n
Decision_quit_as_skip(response) == IF response = "y" THEN "proceed"
                                   ELSE IF response \in {"n", "q"} THEN "skip"
                                   ELSE "again"

\* the branch of the approval prompt taken for an answer (already lowered and stripped)
Decision(response) == IF response = "y" THEN "proceed"
                      ELSE IF response = "n" THEN "skip"
                      ELSE IF response = "q" THEN "quit"
                      ELSE "again"

\* the group loop of run_batch_removal / the two calls of
\* remove_common_contacts_from_groups: store the group's results, go on
FinishGroup(group_results) ==
    /\ results' = (groups[gi] :> group_results) @@ results
    /\ IF script = "gm"
       THEN /\ pc' = IF gi < Len(groups) THEN "group_sleep" ELSE "summary"
            /\ gi' = gi
       ELSE IF gi < Len(groups)
            THEN pc' = "plan" /\ gi' = gi + 1
            ELSE pc' = "summary" /\ gi' = gi

\* the loop that extends all_results by the results so far and the batch's
NextBatch_reextend(new_all_results) ==
    /\ all_results' = all_results \o new_all_results
    /\ IF batch_num < Len(batches)
       THEN /\ batch_num' = batch_num + 1
            /\ pc' = "await"
            /\ UNCHANGED << gi, results >>
       ELSE /\ batch_num' = batch_num
            /\ FinishGroup(all_results \o new_all_results)

\* end of one pass of the `for batch_num, batch in enumerate(batches, 1)` loop
NextBatch(new_all_results) ==
    /\ all_results' = new_all_results
    /\ IF batch_num < Len(batches)
       THEN /\ batch_num' = batch_num + 1
            /\ pc' = "await"
            /\ UNCHANGED << gi, results >>
       ELSE /\ batch_num' = batch_num
            /\ FinishGroup(new_all_results)

(* ---- batch_remove_duplicates.py ---------------------------------------- *)
Cancelled == \E p \in 1 .. Len(log) : log[p].ev = "input" /\ log[p].text = "q"

run_batch_removal(confirm) ==
    /\ pc = "start" /\ script = "batch"
    /\ contacts' = load_common_contacts(csv_file)
    /\ IF contacts' = << >>
       THEN /\ pc' = "ended"
            /\ log' = log \o LoadErrors(csv_file)
            /\ exit_code' = ExitStatus(FALSE)
       ELSE /\ log' = Append(log \o LoadErrors(csv_file),
                             Event("confirm", "", 0, 0, 0, 0, confirm, 0))
            /\ pc' = IF ~IsConfirmed(confirm) THEN "ended" ELSE "plan"
            /\ exit_code' = IF ~IsConfirmed(confirm) THEN ExitStatus(FALSE) ELSE exit_code
    /\ UNCHANGED << inputs, gi, removable_contacts,
                    whitelisted_contacts, batches, batch_num, i, batch_results,
                    all_results, results, summary, saved >>

process_group_in_batches ==
    /\ pc = "plan" /\ script = "batch"
    /\ removable_contacts' = Removable(contacts)
    /\ whitelisted_contacts' = Whitelisted(contacts)
    /\ IF removable_contacts' = << >>
       THEN /\ FinishGroup(<< >>)
            /\ UNCHANGED << batches, batch_num, all_results >>
       ELSE /\ batches' = SplitIntoBatches(removable_contacts', batch_size)
            /\ batch_num' = 1
            /\ all_results' = << >>
            /\ pc' = "await"
            /\ UNCHANGED << gi, results >>
    /\ UNCHANGED << inputs, contacts, i, batch_results, summary, saved, exit_code, log >>

\* the skip that records the first contact of the batch only
UserSkip_first_only(batch, group_jid) ==
    [n \in 1 .. Min(1, Len(batch)) |->
        RemovalResult(batch[n].jid, group_jid, FALSE, << "Skipped by user" >>,
                      "None", TRUE, "user_skip")]

UserSkip(batch, group_jid) ==
    [n \in 1 .. Len(batch) |->
        RemovalResult(batch[n].jid, group_jid, FALSE, << "Skipped by user" >>,
                      "None", TRUE, "user_skip")]

\* one pass of the `while True` loop around input()
approval(response) ==
    /\ pc = "await" /\ script = "batch"
    /\ response \in {"y", "n", "q"} \/ Invalids < MaxInvalid
    /\ log' = Append(log, Event("input", groups[gi], batch_num, 0,
                                Len(batches[batch_num]), 0, response, 0))
    /\ IF Decision(response) = "proceed"
       THEN /\ pc' = "exec"
            /\ i' = 1
            /\ batch_results' = << >>
            /\ UNCHANGED << gi, batch_num, all_results, results >>
       ELSE IF Decision(response) = "skip"
       THEN /\ NextBatch(all_results \o UserSkip(batches[batch_num], groups[gi]))
            /\ UNCHANGED << i, batch_results >>
       ELSE IF Decision(response) = "quit"
       THEN /\ FinishGroup(all_results)
            /\ UNCHANGED << batch_num, i, batch_results, all_results >>
       ELSE UNCHANGED << pc, gi, batch_num, i, batch_results, all_results, results >>
    /\ UNCHANGED << inputs, contacts, removable_contacts,
                    whitelisted_contacts, batches, summary, saved, exit_code >>

\* one pass of the loop of remove_batch, up to its sleep
remove_batch(b) ==
    /\ pc = "exec" /\ script = "batch"
    /\ BridgeMay(b)
    /\ LET batch == batches[batch_num]
           jid == batch[i].jid
           result == remove_group_participant(groups[gi], jid, b)
       IN  /\ log' = IF SendsRequest(jid)
                     THEN Append(log, CallEvent(groups[gi], batch_num, i, Len(batch), jid, b))
                     ELSE log
           /\ IF Hangs(jid, b)
              THEN /\ pc' = "hung"
                   /\ UNCHANGED << gi, batch_num, i, batch_results, all_results, results >>
              ELSE /\ batch_results' = Append(batch_results, result)
                   /\ IF NeedsDelay(result, i, Len(batch))
                      THEN /\ pc' = "sleep"
                           /\ UNCHANGED << gi, batch_num, i, all_results, results >>
                      ELSE IF i < Len(batch)
                      THEN /\ i' = NextIndex(batch_results', i)
                           /\ UNCHANGED << pc, gi, batch_num, all_results, results >>
                      ELSE /\ NextBatch(all_results \o batch_results')
                           /\ i' = i
    /\ UNCHANGED << inputs, contacts, removable_contacts,
                    whitelisted_contacts, batches, summary, saved, exit_code >>

\* time.sleep(delay_seconds) between two removals
sleep ==
    /\ pc = "sleep"
    /\ log' = Append(log, Event("sleep", groups[gi], batch_num, i, 0, 0, "",
                                DelaySeconds))
    /\ i' = NextIndex(batch_results, i)
    /\ pc' = "exec"
    /\ UNCHANGED << inputs, contacts, gi, removable_contacts,
                    whitelisted_contacts, batches, batch_num, batch_results,
                    all_results, results, summary, saved, exit_code >>

(* ---- group_management.py ----------------------------------------------- *)
\* main up to the first removal: plan, confirm, remove_common_contacts_from_groups
\* main with --dry-run: read the contacts, report the split, return
main_dry_run ==
    /\ pc = "start" /\ script = "gm"
    /\ DryRun
    /\ contacts' = load_common_contacts(csv_file)
    /\ removable_contacts' = Removable(contacts')
    /\ whitelisted_contacts' = Whitelisted(contacts')
    /\ log' = log \o LoadErrors(csv_file)
    /\ pc' = "ended"
    /\ exit_code' = ExitStatus(FALSE)
    /\ UNCHANGED << inputs, gi, batches, batch_num, i, batch_results,
                    all_results, results, summary, saved >>

main(confirm) ==
    /\ pc = "start" /\ script = "gm"
    /\ ~DryRun
    /\ contacts' = load_common_contacts(csv_file)
    /\ removable_contacts' = Removable(contacts')
    /\ whitelisted_contacts' = Whitelisted(contacts')
    /\ LET asked == Append(log \o LoadErrors(csv_file),
                           Event("confirm", "", 0, 0, 0, 0, confirm, 0))
       IN  IF ~IsConfirmed(confirm)
           THEN /\ pc' = "ended"
                /\ log' = asked
                /\ exit_code' = ExitStatus(FALSE)
                /\ UNCHANGED << i, batch_results >>
           ELSE IF contacts' = << >>
           THEN /\ pc' = "summary"
                /\ log' = Append(asked \o LoadErrors(csv_file),
                                 ErrorEvent("No common contacts found in CSV file"))
                /\ UNCHANGED << i, batch_results, exit_code >>
           ELSE /\ pc' = "exec"
                /\ log' = asked
                /\ i' = 1
                /\ batch_results' = << >>
                /\ UNCHANGED exit_code
    /\ UNCHANGED << inputs, gi, batches, batch_num,
                    all_results, results, summary, saved >>

\* one pass of the loop of bulk_remove_participants, up to its sleep
bulk_remove_participants(b) ==
    /\ pc = "exec" /\ script = "gm"
    /\ BridgeMay(b)
    /\ LET total == Len(contacts)
           participant_jid == contacts[i].jid
           result == remove_group_participant(groups[gi], participant_jid, b)
       IN  /\ log' = IF SendsRequest(participant_jid)
                     THEN Append(log, CallEvent(groups[gi], 0, i, total, participant_jid, b))
                     ELSE log
           /\ IF Hangs(participant_jid, b)
              THEN /\ pc' = "hung"
                   /\ UNCHANGED << gi, i, batch_results, results >>
              ELSE /\ batch_results' = Append(batch_results, result)
                   /\ IF NeedsDelay(result, i, total)
                      THEN pc' = "sleep" /\ UNCHANGED << gi, i, results >>
                      ELSE IF i < total
                      THEN i' = NextIndex(batch_results', i) /\ UNCHANGED << pc, gi, results >>
                      ELSE FinishGroup(batch_results') /\ i' = i
    /\ UNCHANGED << inputs, contacts, removable_contacts, whitelisted_contacts,
                    batches, batch_num, all_results, summary, saved, exit_code >>

\* the pause of one delay, as between two removals
GroupPause_single == DelaySeconds

\* delay_seconds * 2
GroupPause == DelaySeconds * GroupSleepFactor

\* time.sleep(delay_seconds * 2) between the two groups, then the second group
group_sleep ==
    /\ pc = "group_sleep"
    /\ log' = Append(log, Event("group_sleep", "", 0, 0, 0, 0, "", GroupPause))
    /\ gi' = gi + 1
    /\ i' = 1
    /\ batch_results' = << >>
    /\ pc' = "exec"
    /\ UNCHANGED << inputs, contacts, removable_contacts,
                    whitelisted_contacts, batches, batch_num, all_results, results,
                    summary, saved, exit_code >>

(* ---- the end of a run -------------------------------------------------- *)
AllGroupResults == Flatten([n \in 1 .. Len(groups) |->
                       IF groups[n] \in DOMAIN results THEN results[groups[n]] ELSE << >>])

print_final_summary ==
    /\ pc = "summary"
    /\ summary' = [successful |-> Successful(AllGroupResults),
                   failed     |-> Failed(AllGroupResults),
                   skipped    |-> Skipped(AllGroupResults),
                   printed    |-> TRUE]
    /\ saved' = IF script = "gm" THEN [written |-> TRUE, rows |-> AllGroupResults]
                 ELSE saved
    /\ exit_code' = ExitStatus(Cancelled)
    /\ pc' = "done"
    /\ UNCHANGED << inputs, contacts, gi, removable_contacts,
                    whitelisted_contacts, batches, batch_num, i, batch_results,
                    all_results, results, log >>

Next ==
    \/ \E confirm \in ConfirmWords : run_batch_removal(confirm)
    \/ process_group_in_batches
    \/ \E response \in Responses : approval(response)
    \/ \E b \in BridgeBehaviours : remove_batch(b)
    \/ sleep
    \/ main_dry_run
    \/ \E confirm \in ConfirmWords : main(confirm)
    \/ \E b \in BridgeBehaviours : bulk_remove_participants(b)
    \/ group_sleep
    \/ print_final_summary

Spec == Init /\ [][Next]_vars

\* the operator answers the prompt in the end (input() returns and one of its
\* answers is y, n or q), every request returns (timeout), every sleep ends,
\* and the interpreter runs the statement that is next
Fairness ==
    /\ WF_vars(\E confirm \in ConfirmWords : run_batch_removal(confirm))
    /\ WF_vars(process_group_in_batches)
    /\ WF_vars(\E response \in {"y", "n", "q"} : approval(response))
    /\ WF_vars(\E b \in BridgeBehaviours : remove_batch(b))
    /\ WF_vars(sleep)
    /\ WF_vars(print_final_summary)

LiveSpec == Spec /\ Fairness

(* ---- the loaders, character by character -------------------------------- *)
\* A text is a sequence of characters.
Whitespace == {" ", "\n"}

RECURSIVE lstrip(_)
lstrip(t) == IF t # << >> /\ Head(t) \in Whitespace THEN lstrip(Tail(t)) ELSE t

RECURSIVE rstrip(_)
rstrip(t) == IF t # << >> /\ t[Len(t)] \in Whitespace
             THEN rstrip(SubSeq(t, 1, Len(t) - 1)) ELSE t

\* the strip that leaves the end of the line alone
strip_leading(t) == lstrip(t)

\* line.strip()
strip(t) == rstrip(lstrip(t))

\* line.startswith('#')
startswith(t, c) == t # << >> /\ t[1] = c

LowerChar(c) == IF c = "T" THEN "t" ELSE IF c = "R" THEN "r" ELSE IF c = "U" THEN "u"
                ELSE IF c = "E" THEN "e" ELSE IF c = "F" THEN "f" ELSE c

\* str.lower()
lower(t) == [n \in 1 .. Len(t) |-> LowerChar(t[n])]

\* the lines of a whitelist file, as iteration over the file gives them: the
\* characters of the line and its newline
LineTexts ==
    { << >>, << " " >>, << "a" >>, << " ", "a" >>, << "a", " " >>, << "a", "a" >>,
      << "a", " ", "a" >>, << "#" >>, << "#", "a" >>, << " ", "#" >>, << "a", "#" >> }

\* a file that is read to its end, a file that is not there, and a file whose
\* reading raises after fail_at lines (at open when fail_at = 0)
WhitelistTexts ==
    { [status |-> "ok", lines |-> ls, fail_at |-> Len(ls)] :
        ls \in SeqsUpTo(LineTexts, MaxLines) }
    \cup UNION { { [status |-> "error", lines |-> ls, fail_at |-> k] : k \in 0 .. Len(ls) } :
                   ls \in SeqsUpTo(LineTexts, MaxLines) }
    \cup { [status |-> "missing", lines |-> << >>, fail_at |-> 0] }

\* the loader that starts again from the empty set when reading fails
load_whitelist_from_file_reset(f) ==
    IF f.status # "ok" THEN {}
    ELSE { strip(f.lines[n] \o << "\n" >>) :
             n \in { m \in 1 .. Len(f.lines) :
                       /\ strip(f.lines[m] \o << "\n" >>) # << >>
                       /\ ~startswith(strip(f.lines[m] \o << "\n" >>), "#") } }

\* the set built by the loop until the file ends or an exception leaves it
load_whitelist_from_file(f) ==
    IF f.status = "missing" THEN {}
    ELSE { strip(f.lines[n] \o << "\n" >>) :
             n \in { m \in 1 .. Min(f.fail_at, Len(f.lines)) :
                       /\ strip(f.lines[m] \o << "\n" >>) # << >>
                       /\ ~startswith(strip(f.lines[m] \o << "\n" >>), "#") } }

WhitelistErrors(f) ==
    IF f.status = "error" THEN << ErrorEvent("Error reading whitelist file") >> ELSE << >>

\* the columns the loader looks into; name and source are passed on as they
\* are and left out
Headers == { << "jid", "is_admin", "is_super_admin" >>, << "jid", "is_admin" >>, << "jid" >> }

\* the lines of the file under a header of up to three columns: a line has
\* as many fields as it has, and a line without any is skipped by the reader
RowTexts ==
    { << >>,
      << << >> >>,
      << << "a" >> >>,
      << << "b" >> >>,
      << << "a" >>, << "t", "r", "u", "e" >> >>,
      << << "b" >>, << >> >>,
      << << >>, << "T", "R", "U", "E" >> >>,
      << << "a" >>, << "T", "R", "U", "E" >>, << "F", "a", "l", "s", "e" >> >>,
      << << "a" >>, << "f", "a", "l", "s", "e" >>, << "t", "R", "u", "E" >> >>,
      << << "b" >>, << "T", "r", "u", "e" >>, << >> >>,
      << << "b" >>, << >>, << "t", "r", "u", "e" >> >>,
      << << >>, << "t", "r", "u", "e" >>, << "t", "r", "u", "e" >> >> }

CsvTexts ==
    UNION { { [status |-> "ok", header |-> h, rows |-> rs] :
                rs \in { rs \in SeqsUpTo(RowTexts, MaxRows) :
                           \A n \in 1 .. Len(rs) : Len(rs[n]) <= Len(h) } } :
            h \in Headers }

\* the values of a row of csv.DictReader: a field the line does not have is
\* None (restval)
None == [none |-> TRUE, text |-> << >>]
Text(t) == [none |-> FALSE, text |-> t]

DictReader(header, fields) ==
    [c \in Range(header) |->
        LET k == CHOOSE n \in 1 .. Len(header) : header[n] = c
        IN  IF k <= Len(fields) THEN Text(fields[k]) ELSE None]

\* row.get(key, default)
get(row, key, default) == IF key \in DOMAIN row THEN row[key] ELSE Text(default)

\* `if row.get('jid')`
HasJid(row) == ~get(row, "jid", << >>).none /\ get(row, "jid", << >>).text # << >>

\* None.lower() raises AttributeError
RaisesAttributeError(row) ==
    \/ get(row, "is_admin", << "F", "a", "l", "s", "e" >>).none
    \/ get(row, "is_super_admin", << "F", "a", "l", "s", "e" >>).none

Contact(row) ==
    [jid |-> get(row, "jid", << >>).text,
     is_admin |->
        lower(get(row, "is_admin", << "F", "a", "l", "s", "e" >>).text)
          = << "t", "r", "u", "e" >>,
     is_super_admin |->
        lower(get(row, "is_super_admin", << "F", "a", "l", "s", "e" >>).text)
          = << "t", "r", "u", "e" >>]

\* the loop over the reader: the contacts appended until the file ends or an
\* exception leaves the loop
RECURSIVE ReadRows(_, _)
ReadRows(header, rows) ==
    IF rows = << >> THEN [contacts |-> << >>, raised |-> FALSE]
    ELSE IF Head(rows) = << >> \/ ~HasJid(DictReader(header, Head(rows)))
    THEN ReadRows(header, Tail(rows))
    ELSE IF RaisesAttributeError(DictReader(header, Head(rows)))
    THEN [contacts |-> << >>, raised |-> TRUE]
    ELSE LET rest == ReadRows(header, Tail(rows))
         IN  [contacts |-> << Contact(DictReader(header, Head(rows))) >> \o rest.contacts,
              raised |-> rest.raised]

read_common_contacts_csv(f) == ReadRows(f.header, f.rows).contacts

CsvErrors(f) ==
    IF ReadRows(f.header, f.rows).raised
    THEN << ErrorEvent("Error reading CSV file") >> ELSE << >>

LoaderInit ==
    /\ script \in {"batch", "gm"}
    /\ pc \in {"load_whitelist", "load_csv"}
    /\ whitelist_file \in (IF pc = "load_whitelist" THEN WhitelistTexts
                            ELSE { [status |-> "missing", lines |-> << >>, fail_at |-> 0] })
    /\ csv_file \in (IF pc = "load_csv" THEN CsvTexts
                      ELSE { [status |-> "ok", header |-> << "jid" >>, rows |-> << >>] })
    /\ dry_run = FALSE
    /\ contacts = << >>
    /\ whitelist = {}
    /\ batch_size = 1
    /\ gi = 1
    /\ removable_contacts = << >>
    /\ whitelisted_contacts = << >>
    /\ batches = << >>
    /\ batch_num = 0
    /\ i = 0
    /\ batch_results = << >>
    /\ all_results = << >>
    /\ results = [g \in {} |-> << >>]
    /\ summary = [successful |-> 0, failed |-> 0, skipped |-> 0, printed |-> FALSE]
    /\ saved = [written |-> FALSE, rows |-> << >>]
    /\ exit_code = "running"
    /\ log = << >>

\* load_whitelist / load_whitelist_from_file: the set is returned on every path
LoadWhitelistFile ==
    /\ pc = "load_whitelist"
    /\ whitelist' = load_whitelist_from_file(whitelist_file)
    /\ log' = log \o WhitelistErrors(whitelist_file)
    /\ pc' = "whitelist_loaded"
    /\ UNCHANGED << script, csv_file, whitelist_file, dry_run, batch_size, contacts, gi,
                    removable_contacts, whitelisted_contacts, batches, batch_num, i,
                    batch_results, all_results, results, summary, saved, exit_code >>

\* load_common_contacts / read_common_contacts_csv: the list is returned on
\* every path
ReadCsvFile ==
    /\ pc = "load_csv"
    /\ contacts' = read_common_contacts_csv(csv_file)
    /\ log' = log \o CsvErrors(csv_file)
    /\ pc' = "csv_loaded"
    /\ UNCHANGED << inputs, gi, removable_contacts, whitelisted_contacts, batches,
                    batch_num, i, batch_results, all_results, results, summary, saved,
                    exit_code >>

LoaderNext == LoadWhitelistFile \/ ReadCsvFile

LoaderSpec == LoaderInit /\ [][LoaderNext]_vars

TypeOK ==
    /\ pc \in {"start", "plan", "await", "exec", "sleep", "group_sleep", "summary",
               "done", "ended", "hung"}
    /\ gi \in 1 .. Len(groups)
    /\ Len(log) >= 0

(* ======================================================================== *)
(* Properties                                                               *)
(* ======================================================================== *)
Calls == SelectSeq(log, IsCall)
Jids(rs) == [n \in 1 .. Len(rs) |-> rs[n].jid]
Last(s) == s[Len(s)]

\* planning has run: process_group_in_batches was entered / main computed its split
Planned == IF script = "batch" THEN pc \in {"await", "exec", "sleep", "summary", "done"}
           ELSE pc # "start"

(* C1: no remove-participant request reaches the bridge for an identifier of
   the whitelist, in either script, whatever the operator answers. *)
C1_NoCallForWhitelisted ==
    \A n \in 1 .. Len(log) : IsCall(log[n]) => log[n].jid \notin whitelist

C1_Witness ==
    /\ pc = "done"
    /\ \E n \in 1 .. Len(contacts) : contacts[n].jid \in whitelist
    /\ Calls # << >>

(* C2: in the batch workflow a request for a contact of batch n is only sent
   after the operator answered y at the prompt of batch n; the prompts come in
   batch order, and the prompt of batch n+1 is only shown once batch n was
   executed completely (one request per contact) or skipped with n. *)
AnsweredBefore(p, g, bn, answer) ==
    \E q \in 1 .. p - 1 : /\ IsInput(log[q]) /\ log[q].group_jid = g
                          /\ log[q].batch_num = bn /\ log[q].text = answer

CallsBefore(p, g, bn) ==
    Cardinality({ q \in 1 .. p - 1 : /\ IsCall(log[q]) /\ log[q].group_jid = g
                                     /\ log[q].batch_num = bn })

C2_ApprovalBeforeRemoval ==
    [](
    script = "batch" =>
      \A p \in 1 .. Len(log) :
        /\ IsCall(log[p]) =>
             /\ AnsweredBefore(p, log[p].group_jid, log[p].batch_num, "y")
             /\ \A q \in 1 .. p - 1 : IsInput(log[q]) => log[q].batch_num <= log[p].batch_num
        /\ IsInput(log[p]) =>
             /\ log[p].batch_num \in 1 .. Len(batches)
             /\ \A q \in 1 .. p - 1 : IsInput(log[q]) => log[q].batch_num <= log[p].batch_num
             /\ log[p].batch_num > 1 =>
                  LET prev == log[p].batch_num - 1
                      g == log[p].group_jid
                  IN  \/ AnsweredBefore(p, g, prev, "n")
                      \/ /\ AnsweredBefore(p, g, prev, "y")
                         /\ CallsBefore(p, g, prev) = Len(batches[prev])
    )

C2_Witness ==
    /\ script = "batch"
    /\ pc = "summary"
    /\ batch_num = 2
    /\ \E p \in 1 .. Len(log) : IsCall(log[p]) /\ log[p].batch_num = 1
    /\ \E p \in 1 .. Len(log) : IsCall(log[p]) /\ log[p].batch_num = 2

(* C3: the results of every processed group hold, for each contact whose
   identifier is in the whitelist, a result with skipped = TRUE and
   skip_reason = "whitelisted" (as many such results as protected contacts),
   and no request was sent for them. *)
IsWhitelistedSkip(r) == r.skipped /\ r.skip_reason = "whitelisted"

C3_ProtectedRecorded ==
    \A g \in DOMAIN results :
      (pc \in {"summary", "done"} /\ ~(\E p \in 1 .. Len(log) : IsInput(log[p]) /\ log[p].text = "q")) =>
        /\ Count(results[g], IsWhitelistedSkip) = Len(Whitelisted(contacts))
        /\ \A n \in 1 .. Len(contacts) :
             contacts[n].jid \in whitelist =>
               \E m \in 1 .. Len(results[g]) :
                  results[g][m].jid = contacts[n].jid /\ IsWhitelistedSkip(results[g][m])
        /\ C1_NoCallForWhitelisted

(* C4: the removable list and the protected list of the planning step split
   the contact list exactly: every contact is in exactly one of them, by its
   identifier's membership in the whitelist, and each list keeps the input order. *)
RECURSIVE SplitsInOrder(_, _, _)
SplitsInOrder(cs, rem, prot) ==
    IF cs = << >> THEN rem = << >> /\ prot = << >>
    ELSE IF Head(cs).jid \in whitelist
         THEN prot # << >> /\ Head(prot) = Head(cs) /\ SplitsInOrder(Tail(cs), rem, Tail(prot))
         ELSE rem # << >> /\ Head(rem) = Head(cs) /\ SplitsInOrder(Tail(cs), Tail(rem), prot)

C4_PlanningPartitions ==
    Planned =>
      /\ SplitsInOrder(contacts, removable_contacts, whitelisted_contacts)
      /\ Len(removable_contacts) + Len(whitelisted_contacts) = Len(contacts)
      /\ \A n \in 1 .. Len(removable_contacts) : removable_contacts[n].jid \notin whitelist
      /\ \A n \in 1 .. Len(whitelisted_contacts) : whitelisted_contacts[n].jid \in whitelist

C4_Witness ==
    /\ Planned
    /\ Len(removable_contacts) >= 2
    /\ whitelisted_contacts # << >>
    /\ contacts[1].jid \in whitelist

(* C5: a non-empty removable list of length n is cut into ceil(n/k) batches,
   none empty, all but possibly the last of exactly k contacts, and the
   batches in order give back the removable list. *)
CeilDiv(n, k) == (n + k - 1) \div k

C5_BatchesPartition ==
    (script = "batch" /\ Planned /\ removable_contacts # << >>) =>
      /\ Len(batches) = CeilDiv(Len(removable_contacts), batch_size)
      /\ \A n \in 1 .. Len(batches) :
           /\ Len(batches[n]) >= 1
           /\ Len(batches[n]) <= batch_size
           /\ n < Len(batches) => Len(batches[n]) = batch_size
      /\ Flatten(batches) = removable_contacts

C5_Witness ==
    /\ script = "batch"
    /\ batch_size = 2
    /\ Len(batches) = 2
    /\ Len(batches[1]) = 2
    /\ Len(batches[2]) = 1

(* C6: inside a running batch every request that is not for the last contact
   of the batch is followed by a sleep of delay_seconds before anything else
   happens, whatever the request's outcome; no sleep follows the request for
   the last contact, and a sleep only ever follows such a request. *)
C6_DelayBetweenRemovals ==
    [](
    \A p \in 1 .. Len(log) :
      /\ (IsCall(log[p]) /\ log[p].index < log[p].total) =>
            IF p < Len(log)
            THEN IsSleep(log[p + 1]) /\ log[p + 1].seconds = DelaySeconds
            ELSE pc = "sleep" \/ (pc = "hung" /\ log[p].text = "silent")
      /\ (IsCall(log[p]) /\ log[p].index = log[p].total /\ p < Len(log)) =>
            ~IsSleep(log[p + 1]) /\ ~IsCall(log[p + 1])
      /\ IsSleep(log[p]) =>
            /\ p > 1
            /\ IsCall(log[p - 1])
            /\ log[p - 1].index < log[p - 1].total
            /\ log[p].seconds = DelaySeconds
    )

C6_Witness ==
    \E p \in 1 .. Len(log) :
      /\ p + 2 <= Len(log)
      /\ IsCall(log[p]) /\ log[p].text \in {"rejected", "refused", "silent"}
      /\ IsSleep(log[p + 1])
      /\ IsCall(log[p + 2])

(* C7: a quit at the prompt of batch m hands back exactly the results
   gathered for batches 1 .. m-1, unchanged and in order; batch m and the
   later batches add no result and cause no request. *)
IsQuit(e) == IsInput(e) /\ e.text = "q"

C7_QuitReturnsPartial ==
    /\ [](\A p \in 1 .. Len(log) :
            IsQuit(log[p]) =>
              LET m == log[p].batch_num
                  g == log[p].group_jid
              IN  /\ g \in DOMAIN results
                  /\ Jids(results[g]) = Jids(Flatten(SubSeq(batches, 1, m - 1)))
                  /\ \A q \in 1 .. Len(log) :
                       (IsCall(log[q]) /\ log[q].group_jid = g) => log[q].batch_num < m)
    /\ [][(pc = "await" /\ Len(log') = Len(log) + 1 /\ IsQuit(log'[Len(log')]))
            => results'[groups[gi]] = all_results]_vars

C7_Witness ==
    /\ pc = "done"
    /\ \E p \in 1 .. Len(log) : IsQuit(log[p]) /\ log[p].batch_num = 2
    /\ Len(batches) = 3
    /\ Len(results[GROUP2]) = 1

(* C8: once the operator has typed q at an approval prompt, the run shows no
   further approval prompt and sends no further request: it only prints its
   summary and ends. *)
C8_CancelledIsTerminal ==
    [](
    \A p \in 1 .. Len(log) :
      IsQuit(log[p]) =>
        /\ pc \in {"summary", "done"}
        /\ \A q \in p + 1 .. Len(log) : ~IsInput(log[q]) /\ ~IsCall(log[q])
    )

C8_Witness ==
    /\ pc = "done"
    /\ Len(batches) >= 2
    /\ \E p \in 1 .. Len(log) : IsQuit(log[p]) /\ log[p].batch_num = 1

(* C9: an n at the prompt of a batch appends, for every contact of that batch
   in order, one result with success = FALSE, skipped = TRUE and
   skip_reason = "user_skip", sends no request for the batch, and moves on to
   the next batch (or ends the group after the last one). *)
IsSkipAnswer(e) == IsInput(e) /\ e.text = "n"

C9_SkipBatchRecordsUserSkip ==
    /\ [](\A p \in 1 .. Len(log) :
            IsSkipAnswer(log[p]) =>
              \A q \in 1 .. Len(log) :
                IsCall(log[q]) => ~(/\ log[q].group_jid = log[p].group_jid
                                    /\ log[q].batch_num = log[p].batch_num))
    /\ [][(pc = "await" /\ Len(log') = Len(log) + 1 /\ IsSkipAnswer(log'[Len(log')])) =>
            LET batch == batches[batch_num]
                old == Len(all_results)
            IN  /\ Len(all_results') = old + Len(batch)
                /\ SubSeq(all_results', 1, old) = all_results
                /\ \A n \in 1 .. Len(batch) :
                     /\ all_results'[old + n].jid = batch[n].jid
                     /\ all_results'[old + n].group_jid = groups[gi]
                     /\ all_results'[old + n].success = FALSE
                     /\ all_results'[old + n].skipped = TRUE
                     /\ all_results'[old + n].skip_reason = "user_skip"
                /\ IF batch_num < Len(batches)
                   THEN pc' = "await" /\ batch_num' = batch_num + 1
                   ELSE pc' = "summary" /\ results'[groups[gi]] = all_results']_vars

C9_Witness ==
    /\ pc = "await"
    /\ batch_num = 2
    /\ Len(batches[1]) = 2
    /\ \E p \in 1 .. Len(log) : IsSkipAnswer(log[p])
    /\ Len(all_results) = 2
    /\ all_results[2].skip_reason = "user_skip"

(* C10: a failed request never ends the loop early.  A request that could not
   reach the bridge gives a result with success = FALSE and skipped = FALSE;
   if its contact is not the last, the usual sleep and then the next request
   follow; and when the loop of an approved batch (or of a group, in
   group_management) returns, it returns one result per contact, in order. *)
IsUnreachable(e) ==
    IsCall(e) /\ (e.text = "refused" \/ (e.text = "silent" /\ has_timeout))

CurrentList == IF script = "batch" THEN batches[batch_num] ELSE contacts

C10_FailureDoesNotAbortBatch ==
    /\ [](\A p \in 1 .. Len(log) :
            IsUnreachable(log[p]) =>
              /\ p = Len(log) =>
                   /\ batch_results # << >>
                   /\ Last(batch_results).jid = log[p].jid
                   /\ Last(batch_results).success = FALSE
                   /\ Last(batch_results).skipped = FALSE
              /\ (log[p].index < log[p].total /\ p = Len(log)) => pc = "sleep"
              /\ (log[p].index < log[p].total /\ p + 2 <= Len(log)) =>
                   /\ IsSleep(log[p + 1])
                   /\ \/ /\ IsCall(log[p + 2])
                         /\ log[p + 2].group_jid = log[p].group_jid
                         /\ log[p + 2].batch_num = log[p].batch_num
                         /\ IF script = "batch"
                            THEN log[p + 2].index = log[p].index + 1
                            ELSE /\ log[p + 2].index > log[p].index
                                 /\ \A n \in log[p].index + 1 .. log[p + 2].index - 1 :
                                      contacts[n].jid \in whitelist
                      \/ /\ script = "gm"
                         /\ \A n \in log[p].index + 1 .. Len(contacts) :
                              contacts[n].jid \in whitelist)
    /\ [][(pc = "exec" /\ pc' \notin {"exec", "sleep", "hung"}) =>
            /\ Jids(batch_results') = Jids(CurrentList)
            /\ IF script = "batch"
               THEN all_results' = all_results \o batch_results'
               ELSE results'[groups[gi]] = batch_results']_vars

C10_Witness ==
    /\ pc \in {"await", "summary", "group_sleep"}
    /\ Len(batch_results) = 2
    /\ batch_results[1].success = FALSE
    /\ batch_results[1].skipped = FALSE
    /\ batch_results[1].message[1] = "Request failed"
    /\ batch_results[2].success = TRUE

(* C11: a removal is reported as a success only when the bridge acknowledged
   it: after a request the bridge rejected (a non-200 status or a 200 whose
   payload says success = false) the result has success = FALSE and its
   message carries the bridge's reason. *)
C11_RejectedIsFailure ==
    (log # << >> /\ IsCall(Last(log)) /\ pc # "hung") =>
      /\ batch_results # << >>
      /\ Last(batch_results).jid = Last(log).jid
      /\ Last(batch_results).success => Last(log).text = "acknowledged"
      /\ Last(log).text = "rejected" =>
           /\ Last(batch_results).success = FALSE
           /\ \E b \in BridgeBehaviours :
                /\ b.kind = "response" /\ ~Acknowledged(b)
                /\ b.text \in Range(Last(batch_results).message)

(* C12: no request is repeated: the requests of a group go through the
   entries of the list strictly forwards, so every entry of the contact list
   causes at most one request per group, whatever the request's outcome. *)
C12_NoRetry ==
    [](
    /\ \A p, q \in 1 .. Len(log) :
         (p < q /\ IsCall(log[p]) /\ IsCall(log[q])
                /\ log[p].group_jid = log[q].group_jid) =>
           \/ log[p].batch_num < log[q].batch_num
           \/ log[p].batch_num = log[q].batch_num /\ log[p].index < log[q].index
    /\ \A g \in Range(groups) :
         Cardinality({ p \in 1 .. Len(log) : IsCall(log[p]) /\ log[p].group_jid = g })
            <= Len(contacts)
    )

C12_Witness ==
    /\ pc = "done"
    /\ \E p \in 1 .. Len(log) :
         /\ IsFault(log[p])
         /\ \E q \in p + 1 .. Len(log) :
              IsCall(log[q]) /\ log[q].group_jid = log[p].group_jid

(* C13: a request the bridge never answers still returns, as a failed
   result, so that the loop goes on; in both scripts. *)
C13_SilentBridgeTimesOut ==
    \A p \in 1 .. Len(log) :
      (IsCall(log[p]) /\ log[p].text = "silent") =>
        /\ pc # "hung"
        /\ p = Len(log) =>
             /\ batch_results # << >>
             /\ Last(batch_results).jid = log[p].jid
             /\ Last(batch_results).success = FALSE
             /\ Last(batch_results).skipped = FALSE
             /\ Last(batch_results).message[1] = "Request failed"

(* C14: when every contact is whitelisted the run ends without an approval
   prompt and without a request, and its final report counts one
   whitelisted skip per contact and group. *)
AllWhitelisted ==
    contacts # << >> /\ \A n \in 1 .. Len(contacts) : contacts[n].jid \in whitelist

C14_AllWhitelistedShortCircuit ==
    (pc = "done" /\ AllWhitelisted) =>
      /\ \A p \in 1 .. Len(log) : ~IsInput(log[p]) /\ ~IsCall(log[p])
      /\ \A g \in DOMAIN results : Skipped(results[g]) = Len(contacts)
      /\ summary.printed
      /\ summary.skipped = Len(groups) * Len(contacts)

(* C15: a contact CSV that is missing or cannot be opened stops the run: the
   load gives the empty list and reports an error, and the run ends without a
   request and without an approval prompt. *)
IsError(e) == e.ev = "error"

C16_MissingWhitelistIsEmpty ==
    whitelist_file.status = "missing" =>
      /\ whitelist = {}
      /\ exit_code \in {"running", "0"}
      /\ contacts # << >> => \A p \in 1 .. Len(log) : ~IsError(log[p])
      /\ Planned => /\ removable_contacts = contacts
                    /\ whitelisted_contacts = << >>
      /\ (pc = "done" /\ ~Cancelled /\ contacts # << >>) =>
           \A g \in Range(groups) :
             Cardinality({ p \in 1 .. Len(log) :
                             IsCall(log[p]) /\ log[p].group_jid = g })
               + Skipped(results[g]) = Len(contacts)

C16_Witness ==
    /\ whitelist_file.status = "missing"
    /\ pc = "done"
    /\ Len(contacts) > 1
    /\ Len(Calls) = Len(groups) * Len(contacts)

(* C17: the summary puts every result of a group into exactly one of
   successful, failed and skipped: the three counts add up to the number of
   results, for each group and in the totals; the contacts of a batch the
   operator skipped are counted as skipped and not as failed; no result has
   both success and skipped. *)
IsUserSkip(r) == r.skipped /\ r.skip_reason = "user_skip"

Indices(rs, P(_)) == Cardinality({ n \in 1 .. Len(rs) : P(rs[n]) })

C17_SummaryClassifiesEachResult ==
    [](
    /\ \A r \in Range(batch_results) \cup Range(all_results) \cup Range(AllGroupResults) :
         ~(r.success /\ r.skipped)
    /\ \A g \in DOMAIN results :
         /\ Successful(results[g]) + Failed(results[g]) + Skipped(results[g])
              = Len(results[g])
         /\ Failed(results[g]) + Indices(results[g], IsUserSkip)
              <= Indices(results[g], LAMBDA r : ~r.success)
    /\ summary.printed =>
         /\ summary.successful + summary.failed + summary.skipped = Len(AllGroupResults)
         /\ summary.skipped >= Indices(AllGroupResults, IsUserSkip)
         /\ summary.failed =
              Indices(AllGroupResults, LAMBDA r : ~r.success /\ ~r.skipped)
    )

C17_Witness ==
    /\ pc = "done"
    /\ summary.printed
    /\ summary.successful > 0
    /\ summary.failed > 0
    /\ \E r \in Range(AllGroupResults) : IsUserSkip(r)

(* C18: with --dry-run the tool computes and reports the removable/protected
   split of the contacts and ends: no request is sent, no confirmation is
   asked, and no results file is written. *)
C18_DryRunTouchesNothing ==
    dry_run =>
      /\ \A p \in 1 .. Len(log) :
           ~IsCall(log[p]) /\ ~IsInput(log[p]) /\ log[p].ev # "confirm"
      /\ saved.written = FALSE
      /\ results = [g \in {} |-> << >>]
      /\ pc \in {"start", "ended"}
      /\ pc = "ended" =>
           /\ SplitsInOrder(contacts, removable_contacts, whitelisted_contacts)
           /\ \A n \in 1 .. Len(removable_contacts) :
                removable_contacts[n].jid \notin whitelist
           /\ \A n \in 1 .. Len(whitelisted_contacts) :
                whitelisted_contacts[n].jid \in whitelist
           /\ exit_code = "0"

C18_Witness ==
    /\ dry_run
    /\ pc = "ended"
    /\ removable_contacts # << >>
    /\ whitelisted_contacts # << >>

(* C19: quitting at an approval prompt is no error: the run ends with exit
   status 0, and its final report covers every result recorded before the
   quit (one per request sent, one per contact of a skipped batch); at no
   step of a run does a result already recorded get lost. *)
IsPrefix(s, t) == Len(s) <= Len(t) /\ \A n \in 1 .. Len(s) : s[n] = t[n]

\* the results the run holds: those of the finished groups, of the finished
\* batches of the group in work, and of the batch in work
Held ==
    AllGroupResults
      \o (IF script = "batch" /\ pc \in {"await", "exec", "sleep", "hung"}
          THEN all_results ELSE << >>)
      \o (IF pc \in {"exec", "sleep", "hung"} THEN batch_results ELSE << >>)

Returned == Len(Calls) - (IF pc = "hung" THEN 1 ELSE 0)

C19_QuitKeepsResults ==
    /\ [](Indices(Held, LAMBDA r : ~r.skipped) = Returned)
    /\ []((Cancelled /\ pc = "done") =>
            /\ exit_code = "0"
            /\ summary.printed
            /\ summary.successful + summary.failed + summary.skipped = Len(Held)
            /\ summary.successful + summary.failed = Len(Calls)
            /\ summary.skipped = Indices(Held, IsUserSkip))
    /\ [](Cancelled => exit_code \in {"running", "0"})
    /\ [][IsPrefix(Held, Held')]_vars

C19_Witness ==
    /\ Cancelled
    /\ pc = "done"
    /\ Calls # << >>
    /\ \E r \in Range(AllGroupResults) : IsUserSkip(r)

(* C20: the requests made for a group, in the order they were made, are a
   subsequence of the removable list in input order, inside a batch and
   across batches; the results recorded for the group follow that order
   too. *)
RECURSIVE IsSubseq(_, _)
IsSubseq(s, t) ==
    IF s = << >> THEN TRUE
    ELSE IF t = << >> THEN FALSE
    ELSE IF Head(s) = Head(t) THEN IsSubseq(Tail(s), Tail(t))
    ELSE IsSubseq(s, Tail(t))

CallsOf(g) == SelectSeq(log, LAMBDA e : IsCall(e) /\ e.group_jid = g)

\* the contacts of the input that are not protected, in input order
InputOrder == SelectSeq(contacts, LAMBDA c : c.jid \notin whitelist)

\* the results recorded for the group in work
GroupHeld ==
    IF pc \in {"summary", "done", "group_sleep"} THEN results[groups[gi]]
    ELSE (IF script = "batch" /\ pc \in {"await", "exec", "sleep"}
          THEN all_results ELSE << >>)
         \o (IF pc \in {"exec", "sleep", "hung"} THEN batch_results ELSE << >>)

C20_CallsFollowInputOrder ==
    [](
    /\ \A g \in Range(groups) : IsSubseq(Jids(CallsOf(g)), Jids(InputOrder))
    /\ (Planned /\ pc # "ended" /\ contacts # << >>) =>
         /\ IsPrefix(Jids(GroupHeld),
                     IF script = "batch" THEN Jids(InputOrder) ELSE Jids(contacts))
         /\ pc # "hung" =>
              Jids(SelectSeq(GroupHeld, LAMBDA r : ~r.skipped))
                = Jids(CallsOf(groups[gi]))
    )

C20_Witness ==
    /\ script = "batch"
    /\ pc = "done"
    /\ Len(batches) > 1
    /\ Len(CallsOf(groups[1])) > 2
    /\ \E m, n \in 1 .. Len(contacts) : contacts[m].jid # contacts[n].jid

(* C21: with an operator who answers y, n or q in the end and requests that
   return, the batch workflow terminates: in Done with every one of the
   ceil(n/k) batches executed or skipped, or after a quit; and it never takes
   more than ceil(n/k) valid decisions. *)
IsDecision(e) == IsInput(e) /\ e.text \in {"y", "n", "q"}

DecidedBatches == { log[p].batch_num : p \in { q \in 1 .. Len(log) : IsDecision(log[q]) } }

C21_BatchWorkflowTerminates ==
    /\ (script = "batch") ~> (pc \in {"done", "ended"})
    /\ [](script = "batch" =>
            /\ Count(log, IsDecision) <= CeilDiv(Len(removable_contacts), batch_size)
            /\ Count(log, IsDecision) = Cardinality(DecidedBatches)
            /\ pc = "done" =>
                 IF Cancelled
                 THEN /\ IsQuit(Last(log))
                      /\ DecidedBatches = 1 .. Last(log).batch_num
                 ELSE /\ DecidedBatches = 1 .. CeilDiv(Len(removable_contacts), batch_size)
                      /\ \A p \in 1 .. Len(log) :
                           (IsInput(log[p]) /\ log[p].text = "y") =>
                             CallsBefore(Len(log) + 1, log[p].group_jid, log[p].batch_num)
                               = Len(batches[log[p].batch_num]))

C21_Witness ==
    /\ script = "batch"
    /\ pc = "done"
    /\ ~Cancelled
    /\ Len(batches) = 2
    /\ \E p \in 1 .. Len(log) : IsInvalid(log[p])
    /\ \E p, q \in 1 .. Len(log) :
         /\ IsInput(log[p]) /\ log[p].text = "y"
         /\ IsInput(log[q]) /\ log[q].text = "n"

(* C22: the whitelist does not change after it was loaded; every contact of
   every batch is outside it, when the batch is built and when it is run; so
   an approved batch causes exactly one request per contact, and none of its
   results is a skip. *)
Approved(bn) ==
    \E p \in 1 .. Len(log) :
      IsInput(log[p]) /\ log[p].batch_num = bn /\ log[p].text = "y"

BatchFinished(bn) == batch_num > bn \/ pc \in {"summary", "done"}

CallsFor(bn, k) ==
    Cardinality({ p \in 1 .. Len(log) :
                    IsCall(log[p]) /\ log[p].batch_num = bn /\ log[p].index = k })

\* where the results of batch bn lie in the results of the group
ResultsOfBatch(rs, bn) ==
    Slice(rs, (bn - 1) * batch_size, (bn - 1) * batch_size + Len(batches[bn]))

C22_BatchesStayOutsideWhitelist ==
    /\ [][whitelist' = whitelist]_vars
    /\ [](script = "batch" =>
            /\ \A bn \in 1 .. Len(batches) : \A k \in 1 .. Len(batches[bn]) :
                 /\ batches[bn][k].jid \notin whitelist
                 /\ CallsFor(bn, k) <= 1
                 /\ (Approved(bn) /\ BatchFinished(bn)) =>
                      /\ CallsFor(bn, k) = 1
                      /\ log[CHOOSE p \in 1 .. Len(log) :
                               IsCall(log[p]) /\ log[p].batch_num = bn /\ log[p].index = k].jid
                           = batches[bn][k].jid
            /\ pc \in {"exec", "sleep"} =>
                 \A n \in 1 .. Len(batch_results) : ~batch_results[n].skipped
            /\ pc \in {"summary", "done"} =>
                 \A bn \in 1 .. Len(batches) :
                   (Approved(bn) /\ results # << >>) =>
                     \A r \in Range(ResultsOfBatch(results[groups[1]], bn)) : ~r.skipped)

C22_Witness ==
    /\ script = "batch"
    /\ pc = "done"
    /\ \E n \in 1 .. Len(contacts) : contacts[n].jid \in whitelist
    /\ \E bn \in 1 .. Len(batches) : Approved(bn) /\ Len(batches[bn]) = 2

(* C23: when the identifiers of the contact list are pairwise distinct, no
   contact has more than one result in a group, at any moment of any run. *)
Injective(s) == \A m, n \in 1 .. Len(s) : m # n => s[m] # s[n]

C23_OneResultPerContactAndGroup ==
    [](
    Injective(Jids(contacts)) =>
      /\ \A g \in DOMAIN results : Injective(Jids(results[g]))
      /\ (Planned /\ pc # "ended" /\ contacts # << >>) => Injective(Jids(GroupHeld))
      /\ \A g \in DOMAIN results : \A n \in 1 .. Len(results[g]) :
           /\ results[g][n].group_jid = g
           /\ \E m \in 1 .. Len(contacts) : contacts[m].jid = results[g][n].jid
    )

C23_Witness ==
    /\ script = "gm"
    /\ pc = "done"
    /\ Len(contacts) = 3
    /\ Injective(Jids(contacts))
    /\ \A g \in Range(groups) : g \in DOMAIN results /\ Len(results[g]) = 3
    /\ \E p \in 1 .. Len(log) : IsFault(log[p])

(* C24: the contact loader leaves out exactly the rows without a jid or with
   an empty one and keeps the others in file order; is_admin and
   is_super_admin of a kept row are true exactly when the field's text is
   "true" in some mix of cases, and false for every other text and for a
   field that is not there; no such row makes the loader lose it or the rows
   after it. *)
\* the text of a column in a line of the file: a sequence of one text, or
\* none when the line or the header does not have the field
Field(header, fields, column) ==
    LET at == { n \in 1 .. Min(Len(header), Len(fields)) : header[n] = column }
    IN  IF at = {} THEN << >> ELSE << fields[CHOOSE n \in at : TRUE] >>

TrueTexts == { t \in [1 .. 4 -> {"t", "T", "r", "R", "u", "U", "e", "E"}] :
                 /\ t[1] \in {"t", "T"} /\ t[2] \in {"r", "R"}
                 /\ t[3] \in {"u", "U"} /\ t[4] \in {"e", "E"} }

IsTrue(field) == field # << >> /\ field[1] \in TrueTexts

RowsWithJid(f) ==
    SelectSeq(f.rows, LAMBDA fields : /\ Field(f.header, fields, "jid") # << >>
                                      /\ Field(f.header, fields, "jid")[1] # << >>)

C24_LoaderKeepsRowsWithJid ==
    pc = "csv_loaded" =>
      /\ Len(contacts) = Len(RowsWithJid(csv_file))
      /\ \A n \in 1 .. Len(contacts) :
           LET fields == RowsWithJid(csv_file)[n]
           IN  /\ contacts[n].jid = Field(csv_file.header, fields, "jid")[1]
               /\ contacts[n].is_admin = IsTrue(Field(csv_file.header, fields, "is_admin"))
               /\ contacts[n].is_super_admin
                    = IsTrue(Field(csv_file.header, fields, "is_super_admin"))

(* C25: the whitelist loaded from a file that was read to its end is exactly
   the set of the lines, trimmed of the whitespace around them, that are not
   empty and do not begin with '#'; a blank line or a comment line gives no
   member, and equal identifiers give one member. *)
\* the line between its first and its last character that is not whitespace
Trimmed(line) ==
    LET inked == { n \in 1 .. Len(line) : line[n] \notin Whitespace }
    IN  IF inked = {} THEN << >>
        ELSE SubSeq(line, CHOOSE a \in inked : \A n \in inked : a <= n,
                          CHOOSE b \in inked : \A n \in inked : n <= b)

Identifiers(lines) ==
    { Trimmed(lines[n]) :
        n \in { m \in 1 .. Len(lines) :
                  Trimmed(lines[m]) # << >> /\ Trimmed(lines[m])[1] # "#" } }

C25_WhitelistIsTrimmedLines ==
    (pc = "whitelist_loaded" /\ whitelist_file.status = "ok") =>
      /\ whitelist = Identifiers(whitelist_file.lines)
      /\ \A w \in whitelist :
           /\ w # << >>
           /\ w[1] \notin Whitespace \cup {"#"}
           /\ w[Len(w)] \notin Whitespace
      /\ Cardinality(whitelist) <= Len(whitelist_file.lines)
      /\ log = << >>

C25_Witness ==
    /\ pc = "whitelist_loaded"
    /\ whitelist_file.status = "ok"
    /\ Len(whitelist_file.lines) = 2
    /\ whitelist_file.lines[1] # whitelist_file.lines[2]
    /\ whitelist = { << "a" >> }
    /\ \A n \in 1 .. 2 : Trimmed(whitelist_file.lines[n]) = << "a" >>

(* C26: when reading the whitelist raises an error other than file-not-found
   after some lines, the error is reported, the loader returns (the run goes
   on), and the whitelist is exactly the set of the identifiers of the lines
   read before the error. *)
C26_WhitelistKeepsLinesBeforeError ==
    (pc = "whitelist_loaded" /\ whitelist_file.status = "error") =>
      /\ whitelist = Identifiers(SubSeq(whitelist_file.lines, 1,
                                        Min(whitelist_file.fail_at, Len(whitelist_file.lines))))
      /\ \E p \in 1 .. Len(log) : IsError(log[p])
      /\ exit_code = "running"

C26_Witness ==
    /\ pc = "whitelist_loaded"
    /\ whitelist_file.status = "error"
    /\ whitelist_file.fail_at = 1
    /\ Len(whitelist_file.lines) = 2
    /\ whitelist = { << "a" >> }
    /\ Identifiers(whitelist_file.lines) = { << "a" >>, << "a", "a" >> }

(* C27: planning is a function of the contact list, the whitelist and the
   batch size: done again at any later moment of the run it gives the
   removable list, the protected list and the batches that the run planned
   with, in the same order; planning its own output changes nothing; and the
   run changes neither the contact list nor the whitelist nor the plan. *)
C27_PlanningIsIdempotent ==
    /\ [](Planned =>
            /\ Removable(contacts) = removable_contacts
            /\ Whitelisted(contacts) = whitelisted_contacts
            /\ Removable(removable_contacts) = removable_contacts
            /\ Whitelisted(whitelisted_contacts) = whitelisted_contacts
            /\ (script = "batch" /\ removable_contacts # << >>) =>
                 /\ SplitIntoBatches(Removable(contacts), batch_size) = batches
                 /\ SplitIntoBatches(Flatten(batches), batch_size) = batches)
    /\ [][/\ whitelist' = whitelist
          /\ batch_size' = batch_size
          /\ pc # "start" => contacts' = contacts
          /\ Planned => /\ removable_contacts' = removable_contacts
                        /\ whitelisted_contacts' = whitelisted_contacts
                        /\ batches' = batches]_vars

C27_Witness ==
    /\ script = "batch"
    /\ pc = "done"
    /\ Len(batches) = 2
    /\ whitelisted_contacts # << >>
    /\ Len(AllGroupResults) = 2

(* C28: a request is only sent in a run whose first prompt was answered with
   the script's confirmation word, START in batch_remove_duplicates and
   REMOVE in group_management, exactly; after any other answer the run has
   ended without a request, a result or an approval prompt. *)
IsConfirm(e) == e.ev = "confirm"

C28_ConfirmationGatesTheRun ==
    [](
    /\ Count(log, IsConfirm) <= 1
    /\ Calls # << >> =>
         \E p \in 1 .. Len(log) :
           /\ IsConfirm(log[p])
           /\ log[p].text = (IF script = "batch" THEN "START" ELSE "REMOVE")
           /\ \A q \in 1 .. p : ~IsCall(log[q])
    /\ \A p \in 1 .. Len(log) :
         (IsConfirm(log[p])
            /\ log[p].text # (IF script = "batch" THEN "START" ELSE "REMOVE")) =>
           /\ pc = "ended"
           /\ p = Len(log)
           /\ Calls = << >>
           /\ results = [g \in {} |-> << >>]
           /\ batch_results = << >> /\ all_results = << >>
           /\ ~saved.written /\ ~summary.printed
    )

C28_Witness ==
    /\ script = "batch"
    /\ contacts # << >>
    /\ pc = "ended"
    /\ log # << >> /\ IsConfirm(Last(log)) /\ Last(log).text = "REMOVE"

(* C29: group_management handles the two groups one after the other: every
   contact has its result for group 1 before the first request for group 2,
   one pause of 2 x delay_seconds lies between the groups, both groups get
   the same contacts in the same order, and never is more than one request
   without its result. *)
IsGroupSleep(e) == e.ev = "group_sleep"

InFlight == Len(Calls) - Indices(Held, LAMBDA r : ~r.skipped)

C29_GroupsOneAfterTheOther ==
    [](
    script = "gm" =>
      /\ \A p, q \in 1 .. Len(log) :
           (p < q /\ IsCall(log[p]) /\ IsCall(log[q])) =>
             ~(log[p].group_jid = GROUP2 /\ log[q].group_jid = GROUP1)
      /\ Count(log, IsGroupSleep) <= 1
      /\ \A q \in 1 .. Len(log) :
           (IsGroupSleep(log[q]) \/ (IsCall(log[q]) /\ log[q].group_jid = GROUP2)) =>
             /\ GROUP1 \in DOMAIN results
             /\ Jids(results[GROUP1]) = Jids(contacts)
             /\ \E p \in 1 .. q :
                  /\ IsGroupSleep(log[p])
                  /\ log[p].seconds = 2 * DelaySeconds
                  /\ \A r \in 1 .. Len(log) :
                       (IsCall(log[r]) /\ log[r].group_jid = GROUP1) => r < p
                  /\ \A r \in 1 .. Len(log) :
                       (IsCall(log[r]) /\ log[r].group_jid = GROUP2) => p < r
      /\ (pc = "done" /\ contacts # << >>) =>
           /\ Jids(results[GROUP2]) = Jids(contacts)
           /\ Jids(CallsOf(GROUP1)) = Jids(CallsOf(GROUP2))
      /\ InFlight \in {0, 1}
      /\ InFlight = 1 => pc = "hung" /\ IsCall(Last(log))
    )

C29_Witness ==
    /\ script = "gm"
    /\ pc = "done"
    /\ Len(contacts) = 3
    /\ whitelist # {}
    /\ Len(CallsOf(GROUP2)) = 2
    /\ \E p \in 1 .. Len(log) : IsGroupSleep(log[p])

(* C30: an answer other than y, n and q at the approval prompt of a batch
   changes nothing but the history of answers: the run stays at the prompt of
   the same batch, records no result, sends no request, and asks again. *)
C30_InvalidAnswerChangesNothing ==
    [][(Len(log') > Len(log) /\ IsInvalid(Last(log'))) =>
         /\ pc = "await" /\ pc' = "await"
         /\ batch_num' = batch_num
         /\ gi' = gi
         /\ Last(log').batch_num = batch_num
         /\ log' = Append(log, Last(log'))
         /\ all_results' = all_results
         /\ batch_results' = batch_results
         /\ results' = results
         /\ batches' = batches
         /\ UNCHANGED << inputs, contacts, removable_contacts, whitelisted_contacts,
                         i, summary, saved, exit_code >>]_vars

C30_Witness ==
    /\ pc = "await"
    /\ batch_num = 2
    /\ all_results # << >>
    /\ log # << >> /\ IsInvalid(Last(log))

====
